---- MODULE Spec2Model ----
(***************************************************************************)
(* couch-context (cb_memory): the retrieval layer of a coding-memory       *)
(* store.  This module models                                              *)
(*   - the result merge (_dedupe_results and the inline merge of           *)
(*     memory_search),                                                     *)
(*   - the token-budget trim (_estimate_tokens, _trim_to_token_budget),    *)
(*   - the query-time sync guard (maybe_auto_sync_recent) run by           *)
(*     concurrent callers over the module-level cooldown state,            *)
(*   - the tiered retrieval pipeline of memory_context_for_request.        *)
(* Each part has its own specification; the variables of the other parts   *)
(* stay at their initial value.                                            *)
(***************************************************************************)
EXTENDS Integers, Sequences, FiniteSets, TLC

VARIABLES
    \* ---- result merge (tools/search.py, tools/context.py)
    results,          \* the list handed to the merge step
    merged,           \* what the merge step returned
    mstate,           \* "input" | "deduped" | "searched"
    \* ---- token budget (tools/context.py)
    text,             \* the text handed to the trim (a sequence of characters)
    max_tokens,       \* max_context_tokens
    trimmed,          \* the returned text
    tstate,           \* "input" | "trimmed" | "context_text"
    \* ---- query-time sync guard (sync.py)
    clock,            \* the monotonic time source
    lock,             \* holder of _query_sync_lock, or NoCaller
    last_sync,        \* _last_query_sync_monotonic
    last_result,      \* _last_query_sync_result
    call,             \* per caller: position and locals of its current call
    hist,             \* observation of the sync executions (not program state)
    \* ---- memory_context_for_request (tools/context.py)
    req,              \* the request being served: inputs, position, locals
    \* ---- project scope (project.py)
    sc,               \* one scope resolution: inputs, position, outputs
    \* ---- grouping (tools/context.py)
    grp,              \* one run of the grouper: inputs, position, groups
    \* ---- tool dispatch (server.py)
    tool,             \* one memory_kv_semantic_search call: inputs, position, effects
    \* ---- context synthesis (tools/context.py)
    sm,               \* one synthesis: inputs, position, the two outputs
    \* ---- the server's tool calls (server.py over sync.py)
    srv,              \* the server: its clock, the cooldown state, the call in progress
    \* ---- raw-chat ranking (tools/context.py)
    raw,              \* one raw fallback and its merge: inputs, position, lists
    \* ---- importers (importers/codex.py, importers/claude_code.py)
    imp,              \* one importer: its source files, the store, its runs and their stats
    \* ---- KV + semantic ranking (tools/search.py)
    kvs               \* one memory_kv_semantic_search: backend outcomes, position, result

mergeVars == <<results, merged, mstate>>
trimVars  == <<text, max_tokens, trimmed, tstate>>
syncVars  == <<clock, lock, last_sync, last_result, call, hist>>
ctxVars   == <<req>>
scopeVars == <<sc>>
groupVars == <<grp>>
toolVars  == <<tool>>
summaryVars == <<sm>>
serverVars == <<srv>>
rawVars   == <<raw>>
importVars == <<imp>>
kvVars    == <<kvs>>
vars      == <<mergeVars, trimVars, syncVars, ctxVars, scopeVars, groupVars, toolVars, summaryVars, serverVars, rawVars, importVars, kvVars>>

Max(a, b) == IF a >= b THEN a ELSE b
Min(a, b) == IF a <= b THEN a ELSE b

\* Sequences over S of length 0..n.
SeqUpTo(S, n) == UNION {[1..k -> S] : k \in 0..n}

(***************************************************************************)
(* Scores.  The program's scores are floats; the model counts them in      *)
(* units of 1/27720, which makes 0.05, 0.15, 0.2, 0.25 and every overlap   *)
(* ratio hits/n with n <= 12 (the most terms a query has) exact.           *)
(***************************************************************************)
ScoreUnit == 27720

\* What an operation of one part leaves alone.
MergeOnly == UNCHANGED <<trimVars, syncVars, ctxVars, scopeVars, groupVars, toolVars, summaryVars, serverVars, rawVars, importVars, kvVars>>
TrimOnly  == UNCHANGED <<mergeVars, syncVars, ctxVars, scopeVars, groupVars, toolVars, summaryVars, serverVars, rawVars, importVars, kvVars>>
SyncOnly  == UNCHANGED <<mergeVars, trimVars, ctxVars, scopeVars, groupVars, toolVars, summaryVars, serverVars, rawVars, importVars, kvVars>>
CtxOnly   == UNCHANGED <<mergeVars, trimVars, syncVars, scopeVars, groupVars, toolVars, summaryVars, serverVars, rawVars, importVars, kvVars>>
ScopeOnly == UNCHANGED <<mergeVars, trimVars, syncVars, ctxVars, groupVars, toolVars, summaryVars, serverVars, rawVars, importVars, kvVars>>
GroupOnly == UNCHANGED <<mergeVars, trimVars, syncVars, ctxVars, scopeVars, toolVars, summaryVars, serverVars, rawVars, importVars, kvVars>>
ToolOnly  == UNCHANGED <<mergeVars, trimVars, syncVars, ctxVars, scopeVars, groupVars, summaryVars, serverVars, rawVars, importVars, kvVars>>
SummaryOnly == UNCHANGED <<mergeVars, trimVars, syncVars, ctxVars, scopeVars, groupVars, toolVars, serverVars, rawVars, importVars, kvVars>>
ServerOnly == UNCHANGED <<mergeVars, trimVars, syncVars, ctxVars, scopeVars, groupVars, toolVars, summaryVars, rawVars, importVars, kvVars>>
RawRankOnly == UNCHANGED <<mergeVars, trimVars, syncVars, ctxVars, scopeVars, groupVars, toolVars, summaryVars, serverVars, importVars, kvVars>>
ImportOnly == UNCHANGED <<mergeVars, trimVars, syncVars, ctxVars, scopeVars, groupVars, toolVars, summaryVars, serverVars, rawVars, kvVars>>
KvOnly    == UNCHANGED <<mergeVars, trimVars, syncVars, ctxVars, scopeVars, groupVars, toolVars, summaryVars, serverVars, rawVars, importVars>>

(***************************************************************************)
(* RESULT MERGE                                                            *)
(***************************************************************************)
MaxResults == 3      \* length of the list handed to the merge step
MaxId      == 2      \* ids 1..MaxId; NoId is the falsy id (None or "")
MaxScore   == 1      \* scores 0..MaxScore; NoScore is a missing "score" key

NoId    == 0
NoScore == -1

MergeItems == [id : NoId..MaxId, score : NoScore..MaxScore]

\* x.get("score", 0)
score_key(r) == IF r.score = NoScore THEN 0 ELSE r.score

\* Insert r after every element whose key is >= its own: a stable descending
\* insertion, so equal keys keep their input order, like sorted(reverse=True).
RECURSIVE InsertDesc(_, _)
InsertDesc(r, s) ==
    IF s = <<>> THEN <<r>>
    ELSE IF score_key(Head(s)) >= score_key(r)
         THEN <<Head(s)>> \o InsertDesc(r, Tail(s))
         ELSE <<r>> \o s

RECURSIVE InsertAsc(_, _)
InsertAsc(r, s) ==
    IF s = <<>> THEN <<r>>
    ELSE IF score_key(Head(s)) <= score_key(r)
         THEN <<Head(s)>> \o InsertAsc(r, Tail(s))
         ELSE <<r>> \o s

\* The sort without reverse=True: ascending by score.
RECURSIVE sorted_by_score_asc(_)
sorted_by_score_asc(s) ==
    IF s = <<>> THEN <<>>
    ELSE InsertAsc(s[Len(s)], sorted_by_score_asc(SubSeq(s, 1, Len(s) - 1)))

\* sorted(results, key=lambda x: x.get("score", 0), reverse=True)
RECURSIVE sorted_by_score(_)
sorted_by_score(s) ==
    IF s = <<>> THEN <<>>
    ELSE InsertDesc(s[Len(s)], sorted_by_score(SubSeq(s, 1, Len(s) - 1)))

\* The loop of _dedupe_results: skip an item whose id is falsy or seen.
RECURSIVE dedupe_loop(_, _)
dedupe_loop(s, seen) ==
    IF s = <<>> THEN <<>>
    ELSE IF Head(s).id = NoId \/ Head(s).id \in seen
         THEN dedupe_loop(Tail(s), seen)
         ELSE <<Head(s)>> \o dedupe_loop(Tail(s), seen \cup {Head(s).id})

dedupe_results(rs) == dedupe_loop(sorted_by_score(rs), {})

\* The loop of memory_search: r["id"] not in seen (no test for a falsy id).
RECURSIVE search_merge_loop(_, _)
search_merge_loop(s, seen) ==
    IF s = <<>> THEN <<>>
    ELSE IF Head(s).id \in seen
         THEN search_merge_loop(Tail(s), seen)
         ELSE <<Head(s)>> \o search_merge_loop(Tail(s), seen \cup {Head(s).id})

search_merge(rs) == search_merge_loop(sorted_by_score(rs), {})

MergeIdle == /\ results = <<>>
             /\ merged = <<>>
             /\ mstate = "idle"

InitMerge == /\ results \in SeqUpTo(MergeItems, MaxResults)
             /\ merged = <<>>
             /\ mstate = "input"

DedupeCall == /\ mstate = "input"
              /\ merged' = dedupe_results(results)
              /\ mstate' = "deduped"
              /\ UNCHANGED results
              /\ MergeOnly

SearchMergeCall == /\ mstate = "input"
                   /\ merged' = search_merge(results)
                   /\ mstate' = "searched"
                   /\ UNCHANGED results
                   /\ MergeOnly

(***************************************************************************)
(* TOKEN BUDGET                                                            *)
(***************************************************************************)
MaxTextLen == 14     \* length of the text handed to the trim
MaxTokens  == 3      \* max_context_tokens 0..MaxTokens

Ellipsis == "..."    \* the one-character truncation marker

\* max(1, len(text) // 4)
estimate_tokens(t) == Max(1, Len(t) \div 4)

trim_to_token_budget(t, m) ==
    IF m <= 0 THEN <<>>
    ELSE IF estimate_tokens(t) <= m THEN t
    ELSE IF m * 4 <= 1 THEN <<Ellipsis>>
    ELSE SubSeq(t, 1, m * 4 - 1) \o <<Ellipsis>>

TrimIdle == /\ text = <<>>
            /\ max_tokens = 0
            /\ trimmed = <<>>
            /\ tstate = "idle"

InitTrim == /\ text \in {[i \in 1..n |-> "x"] : n \in 0..MaxTextLen}
            /\ max_tokens \in 0..MaxTokens
            /\ trimmed = <<>>
            /\ tstate = "input"

\* One trim: _heuristic_context_summary's return, raw_context_text.
TrimCall == /\ tstate = "input"
            /\ trimmed' = trim_to_token_budget(text, max_tokens)
            /\ tstate' = "trimmed"
            /\ UNCHANGED <<text, max_tokens>>
            /\ TrimOnly

\* llm_context is trimmed, and context_text is the trim of that.
ContextTextCall ==
    /\ tstate = "input"
    /\ trimmed' = trim_to_token_budget(trim_to_token_budget(text, max_tokens), max_tokens)
    /\ tstate' = "context_text"
    /\ UNCHANGED <<text, max_tokens>>
    /\ TrimOnly

(***************************************************************************)
(* QUERY-TIME SYNC GUARD (sync.py)                                         *)
(***************************************************************************)
NumCallers == 2      \* concurrent callers of maybe_auto_sync_recent
MaxClock   == 3      \* the clock runs 0..MaxClock
MaxCalls   == 2      \* calls made in one run of the model
Interval   == 2      \* settings.auto_import_min_interval_seconds

Callers  == 1..NumCallers
NoCaller == 0
Resetter == NumCallers + 1     \* the thread of _reset_query_sync_state_for_tests

Outcomes == {"ok", "error", "disabled"}     \* the "status" _run_sync returns
NoResult == [claude |-> "none", codex |-> "none"]     \* None

\* max(0, int(getattr(settings, "auto_import_min_interval_seconds", 45)))
interval_seconds == Max(0, Interval)

IdleCall == [pc |-> "idle", now |-> 0, force |-> FALSE, elapsed |-> 0,
             prior |-> FALSE, mid |-> FALSE, ran |-> {}, status |-> "none"]

\* not force and _last_query_sync_monotonic > 0 and elapsed < interval_seconds
in_cooldown(force, last, elapsed) ==
    ~force /\ last > 0 /\ elapsed < interval_seconds

InSync(c) == call[c].pc = "sync"

\* Module import: lines 15-17.
InitSync == /\ clock = 0
            /\ lock = NoCaller
            /\ last_sync = 0
            /\ last_result = NoResult
            /\ call = [c \in Callers |-> IdleCall]
            /\ hist = [calls |-> 0, prevStart |-> -1, close |-> FALSE,
                       unguarded |-> FALSE]

\* time.monotonic() advances.
Tick == /\ clock < MaxClock
        /\ clock' = clock + 1
        /\ UNCHANGED <<lock, last_sync, last_result, call, hist>>
        /\ SyncOnly

\* Lines 107-108: auto_import_on_query is false.
CallDisabled(c) ==
    /\ call[c].pc = "idle"
    /\ hist.calls < MaxCalls
    /\ call' = [call EXCEPT ![c] = [IdleCall EXCEPT !.pc = "ret", !.status = "disabled"]]
    /\ hist' = [hist EXCEPT !.calls = @ + 1]
    /\ UNCHANGED <<clock, lock, last_sync, last_result>>
    /\ SyncOnly

\* Lines 110-111: the interval and now are taken before the lock is.
\* mid: another caller's sync is in progress as this one arrives.
CallBegin(c, force) ==
    /\ call[c].pc = "idle"
    /\ hist.calls < MaxCalls
    /\ call' = [call EXCEPT ![c] =
                  [IdleCall EXCEPT !.pc = "wait", !.now = clock, !.force = force,
                                   !.mid = \E d \in Callers \ {c} : InSync(d)]]
    /\ hist' = [hist EXCEPT !.calls = @ + 1]
    /\ UNCHANGED <<clock, lock, last_sync, last_result>>
    /\ SyncOnly

\* Lines 113-121: the lock is taken and the cooldown tested; a call in
\* cooldown returns "skipped" and leaves the with block, which releases the
\* lock; any other goes on to the importers, holding the lock.
\* hist: when the last sync that was not forced began, and whether two such
\* syncs, with no forced one between them, began less than the interval
\* apart although the time recorded for the last sync was > 0 (the one case
\* in which line 115 takes a sync to have occurred).
Check(c) ==
    /\ call[c].pc = "wait"
    /\ lock = NoCaller
    /\ LET elapsed == call[c].now - last_sync
           skip    == in_cooldown(call[c].force, last_sync, elapsed)
           seen    == [call[c] EXCEPT !.elapsed = elapsed,
                                      !.prior = (last_result # NoResult)]
       IN /\ call' = [call EXCEPT ![c] =
                        IF skip THEN [seen EXCEPT !.pc = "ret", !.status = "skipped"]
                        ELSE [seen EXCEPT !.pc = "sync"]]
          /\ lock' = IF skip THEN NoCaller ELSE c
          /\ hist' = IF skip THEN hist
                     ELSE IF call[c].force THEN [hist EXCEPT !.prevStart = -1]
                     ELSE [hist EXCEPT
                             !.prevStart = clock,
                             !.close = @ \/ (hist.prevStart >= 0 /\ last_sync > 0
                                             /\ clock - hist.prevStart < interval_seconds)]
    /\ UNCHANGED <<clock, last_sync, last_result>>
    /\ SyncOnly

\* Lines 123-143 with a lock that is not released on the way out.
RunSyncKeepsLock(c, claude, codex) ==
    /\ call[c].pc = "sync"
    /\ last_sync' = call[c].now
    /\ last_result' = [claude |-> claude, codex |-> codex]
    /\ call' = [call EXCEPT ![c] = [IdleCall EXCEPT !.pc = "ret", !.status = "ok",
                                                     !.ran = {"claude", "codex"}]]
    /\ UNCHANGED <<clock, lock, hist>>
    /\ SyncOnly

\* Lines 123-143: auto_sync_claude, then auto_sync_codex (_run_sync returns
\* disabled, ok or error: an importer that raises is caught at line 46);
\* the result is recorded with the now taken at line 111, and the return
\* leaves the with block.
RunSync(c, claude, codex) ==
    /\ call[c].pc = "sync"
    /\ last_sync' = call[c].now
    /\ last_result' = [claude |-> claude, codex |-> codex]
    /\ lock' = NoCaller
    /\ call' = [call EXCEPT ![c] = [IdleCall EXCEPT !.pc = "ret", !.status = "ok",
                                                     !.ran = {"claude", "codex"}]]
    /\ hist' = [hist EXCEPT !.unguarded = @ \/ lock # c]
    /\ UNCHANGED clock
    /\ SyncOnly

\* The caller has its result; its locals are gone.
Return(c) ==
    /\ call[c].pc = "ret"
    /\ call' = [call EXCEPT ![c] = IdleCall]
    /\ UNCHANGED <<clock, lock, last_sync, last_result, hist>>
    /\ SyncOnly

\* Lines 146-151: _reset_query_sync_state_for_tests writes both globals and
\* takes no lock.
Reset ==
    /\ last_sync' = 0
    /\ last_result' = NoResult
    /\ hist' = [hist EXCEPT !.unguarded = @ \/ lock # Resetter]
    /\ UNCHANGED <<clock, lock, call>>
    /\ SyncOnly

(***************************************************************************)
(* memory_context_for_request (tools/context.py) over memory_search and    *)
(* memory_kv_semantic_search (tools/search.py).  The request is served     *)
(* with a global scope (scope_project_ids = None), for which the project   *)
(* filters of lines 1020 and 1062 keep every item.                         *)
(***************************************************************************)
MaxHits  == 5        \* rows one vector search returns: 0..MaxHits
MaxFts   == 1        \* rows one full-text search returns: 0..MaxFts
MaxTerms == 2        \* terms _extract_query_terms finds: 0 or MaxTerms
MaxPaths == 1        \* file paths of the request: 0..MaxPaths

Limits      == {2, 10}                     \* the request's limit
IndexScores == {ScoreUnit \div 10, (9 * ScoreUnit) \div 10}   \* 0.1, 0.9

Raised == "raised"   \* an exception leaving the function

\* What one index search does: it fails, or returns n rows of one score.
SearchOutcomes(maxn) ==
    {[ok |-> FALSE, n |-> 0, score |-> 0], [ok |-> TRUE, n |-> 0, score |-> 0]}
    \cup [ok : {TRUE}, n : 1..maxn, score : IndexScores]

\* What one store query does: it fails, or returns n rows whose text holds
\* `hits` of the terms.
QueryOutcomes(nterms) ==
    {[ok |-> FALSE, n |-> 0, hits |-> 0], [ok |-> TRUE, n |-> 0, hits |-> 0]}
    \cup [ok : {TRUE}, n : {1}, hits : 0..nterms]

\* _vector_search: the rows of the index, documents 1..n.
vector_search(o, limit, tier) ==
    IF o.ok
    THEN [i \in 1..Min(o.n, limit) |->
            [id |-> i, score |-> o.score, src |-> "vector", tier |-> tier]]
    ELSE <<>>

\* _fts_search: the rows of the index, documents MaxHits, MaxHits-1, ...
fts_search(o, limit, src, tier) ==
    IF o.ok
    THEN [i \in 1..Min(o.n, limit) |->
            [id |-> MaxHits + 1 - i, score |-> o.score, src |-> src, tier |-> tier]]
    ELSE <<>>

Prefix(s, n) == SubSeq(s, 1, Min(n, Len(s)))

\* memory_search, lines 121-168: embed_one is called outside any try; the
\* two searches are each inside one.
memory_search(embedOk, vo, fo, limit, tier) ==
    IF ~embedOk THEN Raised
    ELSE Prefix(search_merge(vector_search(vo, limit, tier)
                             \o fts_search(fo, limit, "fts", tier)), limit)

\* _annotate_kv_rows: score = 10.0 + len(matched_terms)
kv_grep(ko, tier) ==
    IF ko.ok
    THEN [i \in 1..ko.n |->
            [id |-> i + 1, score |-> (10 + ko.hits) * ScoreUnit, src |-> "kv",
             tier |-> tier]]
    ELSE <<>>

\* memory_kv_semantic_search, lines 210-234.
memory_kv_semantic_search(ko, embedOk, vo, fo, limit, tier) ==
    LET semantic == memory_search(embedOk, vo, fo, limit, tier)
    IN IF semantic = Raised THEN Raised
       ELSE Prefix(dedupe_results(kv_grep(ko, tier) \o semantic), limit)

\* _keyword_score: hits / max(1, len(terms)), 0.0 without terms.
keyword_score(hits, nterms) ==
    IF nterms = 0 THEN 0 ELSE (hits * ScoreUnit) \div Max(1, nterms)

\* Lines 296 and 332 with the base alone, the overlap left out.
raw_score_base_only(base, hits, nterms) ==
    IF nterms > 0 THEN base ELSE ScoreUnit \div 20

\* Lines 296 and 332: (base + _keyword_score) if terms else 0.05
raw_score(base, hits, nterms) ==
    IF nterms > 0 THEN base + keyword_score(hits, nterms) ELSE ScoreUnit \div 20

\* _raw_chat_fallback: the message query, then the session query, each
\* inside its own try.  Message rows are document 1, session rows document 2.
raw_chat_fallback(mo, so, nterms) ==
    (IF mo.ok
     THEN [i \in 1..mo.n |->
             [id |-> 1, score |-> raw_score(ScoreUnit \div 4, mo.hits, nterms),
              src |-> "raw", tier |-> 3]]
     ELSE <<>>)
    \o
    (IF so.ok
     THEN [i \in 1..so.n |->
             [id |-> 2, score |-> raw_score(ScoreUnit \div 5, so.hits, nterms),
              src |-> "raw", tier |-> 3]]
     ELSE <<>>)

\* Line 1027, with <= for <.
is_sparse_off_by_one(n, limit) == n <= Max(4, limit \div 2)

\* Line 1027: len(results) < max(4, limit // 2)
is_sparse(n, limit) == n < Max(4, limit \div 2)

\* _build_context_reasoning, lines 919-929: the steps and the hit counts of
\* the reasoning trace.
build_context_reasoning(primary_hits, kv_semantic_hits, raw_fallback_hits) ==
    [retrieval_steps |-> <<"semantic_search", "file_path_fts", "kv_semantic_fallback",
                           "raw_chat_fallback">>,
     hit_counts |-> [primary_semantic_fts |-> primary_hits,
                     kv_semantic_fallback |-> kv_semantic_hits,
                     raw_chat_fallback |-> raw_fallback_hits]]

NoReasoning ==
    [retrieval_steps |-> <<>>,
     hit_counts |-> [primary_semantic_fts |-> 0, kv_semantic_fallback |-> 0,
                     raw_chat_fallback |-> 0]]

IdleReq == [pc |-> "idle", limit |-> 0, nterms |-> 0, npaths |-> 0,
            results |-> <<>>, primary_hits |-> 0, kv_semantic_hits |-> 0,
            raw_fallback_hits |-> 0, kv_calls |-> 0, raw_calls |-> 0,
            ranked |-> <<>>, down |-> {}, reasoning |-> NoReasoning]

CtxIdle == req = IdleReq

InitCtx == req \in {[IdleReq EXCEPT !.pc = "tier1", !.limit = l, !.nterms = n,
                                    !.npaths = p] :
                       l \in Limits, n \in {0, MaxTerms}, p \in 0..MaxPaths}

\* Lines 1001-1014: the primary search.  An exception of memory_search is
\* not caught here: it leaves memory_context_for_request.
Tier1(embedOk, vo, fo) ==
    /\ req.pc = "tier1"
    /\ LET primary == memory_search(embedOk, vo, fo, req.limit, 1)
       IN req' = IF primary = Raised
                 THEN [req EXCEPT !.pc = Raised, !.down = @ \cup {1}]
                 ELSE [req EXCEPT !.pc = "paths", !.results = primary,
                                  !.primary_hits = Len(primary),
                                  !.down = IF ~vo.ok /\ ~fo.ok THEN @ \cup {1} ELSE @]
    /\ CtxOnly

\* Lines 1016-1023: one full-text search per file path, each inside a try.
FilePaths(fo) ==
    /\ req.pc = "paths"
    /\ req.npaths > 0
    /\ req' = [req EXCEPT !.npaths = @ - 1,
                          !.results = @ \o fts_search(fo, Max(3, req.limit \div 2), "file", 1)]
    /\ CtxOnly

NoFilePaths ==
    /\ req.pc = "paths"
    /\ req.npaths = 0
    /\ req' = [req EXCEPT !.pc = "gate"]
    /\ CtxOnly

\* Lines 1027-1030: the results are not sparse, or the query has no terms.
Tier2Skip ==
    /\ req.pc = "gate"
    /\ ~is_sparse(Len(req.results), req.limit) \/ req.nterms = 0
    /\ req' = [req EXCEPT !.pc = "tier3"]
    /\ CtxOnly

\* Lines 1027-1049: the KV + semantic fallback, inside a try.
Tier2(ko, embedOk, vo, fo) ==
    /\ req.pc = "gate"
    /\ is_sparse(Len(req.results), req.limit)
    /\ req.nterms > 0
    /\ LET kv_sem == memory_kv_semantic_search(ko, embedOk, vo, fo,
                                               Max(req.limit * 2, 12), 2)
       IN req' = IF kv_sem = Raised
                 THEN [req EXCEPT !.pc = "tier3", !.kv_calls = @ + 1,
                                  !.down = @ \cup {2}]
                 ELSE [req EXCEPT !.pc = "tier3", !.kv_calls = @ + 1,
                                  !.results = @ \o kv_sem,
                                  !.kv_semantic_hits = Len(kv_sem),
                                  !.down = IF ~ko.ok /\ ~vo.ok /\ ~fo.ok
                                           THEN @ \cup {2} ELSE @]
    /\ CtxOnly

\* Lines 1051-1059: the raw chat fallback.
Tier3(mo, so) ==
    /\ req.pc = "tier3"
    /\ LET raw_results == raw_chat_fallback(mo, so, req.nterms)
       IN req' = [req EXCEPT !.pc = "merge", !.raw_calls = @ + 1,
                             !.results = @ \o raw_results,
                             !.raw_fallback_hits = Len(raw_results),
                             !.down = IF ~mo.ok /\ ~so.ok THEN @ \cup {3} ELSE @]
    /\ CtxOnly

\* Lines 1061-1062: the merge of the pool; ranked is the merged list.
\* Lines 1096-1106: the reasoning trace of the response.
Merge ==
    /\ req.pc = "merge"
    /\ req' = [req EXCEPT !.pc = "done", !.ranked = dedupe_results(req.results),
                          !.reasoning = build_context_reasoning(req.primary_hits,
                                            req.kv_semantic_hits, req.raw_fallback_hits)]
    /\ CtxOnly

(***************************************************************************)
(* PROJECT SCOPE (project.py)                                              *)
(***************************************************************************)
MaxRelated == 2      \* length of the related-project lists

None == "None"
NoList == <<None>>     \* None where a list is expected
NoFlag == "unset"      \* None where a bool is expected

\* The project selectors a caller passes, and the directories of settings.
ProjectIds == {"", "/", "/a", "/a/", "b", "default"}

\* normalize_project_path: "" for a falsy directory, otherwise the resolved
\* absolute path (the working directory is /cwd): a trailing slash goes, a
\* relative name is taken under the working directory.
normalize_project_path(d) ==
    CASE d = None   -> ""
      [] d = ""     -> ""
      [] d = "/"    -> "/"
      [] d = "/a/"  -> "/a"
      [] d = "b"    -> "/cwd/b"
      [] d = "default" -> "/cwd/default"
      [] d = "main" -> "/cwd/main"
      [] OTHER      -> d

Falsy(x) == x = None \/ x = ""

\* normalized and normalized not in {"/", "."}
NonTrivial(n) == n # "" /\ n \notin {"/", "."}

\* resolve_runtime_project_id returning the workspace project as configured,
\* not normalized.
resolve_runtime_project_id_raw(requested_project_id, current_project_id, default_project_id) ==
    LET requested == IF Falsy(requested_project_id) THEN default_project_id
                     ELSE requested_project_id
    IN IF ~Falsy(requested) /\ requested # default_project_id THEN requested
       ELSE IF ~Falsy(current_project_id) THEN current_project_id
       ELSE requested

\* resolve_runtime_project_id with allow_unset = False.
resolve_runtime_project_id(requested_project_id, current_project_id, default_project_id) ==
    LET requested == IF Falsy(requested_project_id) THEN default_project_id
                     ELSE requested_project_id
        normalized_current == normalize_project_path(current_project_id)
    IN IF ~Falsy(requested) /\ requested # default_project_id THEN requested
       ELSE IF NonTrivial(normalized_current) THEN normalized_current
       ELSE requested

\* The loop of normalize_project_ids.
RECURSIVE normalize_loop(_, _)
normalize_loop(ids, seen) ==
    IF ids = <<>> THEN <<>>
    ELSE LET normalized == normalize_project_path(Head(ids))
         IN IF ~NonTrivial(normalized) \/ normalized \in seen
            THEN normalize_loop(Tail(ids), seen)
            ELSE <<normalized>> \o normalize_loop(Tail(ids), seen \cup {normalized})

normalize_project_ids(project_ids) ==
    IF project_ids = NoList \/ project_ids = <<>> THEN <<>>
    ELSE normalize_loop(project_ids, {})

\* resolve_scope_overrides with `if not related` for `if related is None`.
resolve_scope_overrides_falsy(req_related, req_include_all, default_related, include_all_by_default) ==
    [related     |-> normalize_project_ids(IF req_related = NoList \/ req_related = <<>>
                                           THEN default_related ELSE req_related),
     include_all |-> IF req_include_all = NoFlag THEN include_all_by_default
                     ELSE req_include_all = "true"]

\* resolve_scope_overrides without the configured default of the flag.
resolve_scope_overrides_explicit(req_related, req_include_all, default_related, include_all_by_default) ==
    [related     |-> normalize_project_ids(IF req_related = NoList THEN default_related
                                           ELSE req_related),
     include_all |-> req_include_all = "true"]

\* resolve_scope_overrides: explicit request values win over the defaults.
resolve_scope_overrides(req_related, req_include_all, default_related, include_all_by_default) ==
    [related     |-> normalize_project_ids(IF req_related = NoList THEN default_related
                                           ELSE req_related),
     include_all |-> IF req_include_all = NoFlag THEN include_all_by_default
                     ELSE req_include_all = "true"]

\* The loop of lines 126-128 without its test.
without_nothing(ids, effective) == ids

\* [pid for pid in ids if pid != effective]
RECURSIVE without(_, _)
without(ids, effective) ==
    IF ids = <<>> THEN <<>>
    ELSE IF Head(ids) # effective THEN <<Head(ids)>> \o without(Tail(ids), effective)
         ELSE without(Tail(ids), effective)

\* resolve_project_scope: scope None is the global scope.
resolve_project_scope(requested_project_id, current_project_id, related_project_ids, include_all_projects, default_project_id) ==
    LET resolved  == resolve_runtime_project_id(requested_project_id, current_project_id,
                                                default_project_id)
        effective == IF Falsy(resolved) THEN default_project_id ELSE resolved
    IN IF include_all_projects
       THEN [effective |-> effective, scope |-> NoList]
       ELSE [effective |-> effective,
             scope |-> <<effective>>
                       \o without(normalize_project_ids(related_project_ids), effective)]

\* A stored document as the filters see it: its project_id and directory, and
\* for a message those of its parent session (None: the field is absent).
NoDoc == [project_id |-> None, session_project_id |-> None,
          directory |-> None, session_directory |-> None]

Docs == [project_id : {None, "default", "main", "/a", "/cwd/b"},
         session_project_id : {None, "default", "main", "/a", "/cwd/b"},
         directory : {None, "/a"},
         session_directory : {None, "/a"}]

InList(x, ids) == \E i \in 1..Len(ids) : ids[i] = x

\* search._doc_matches_projects, called at line 154-158 for a scope that is
\* not None.
search_doc_matches_projects(doc, project_ids) ==
    IF project_ids = <<>> THEN TRUE
    ELSE IF InList(doc.project_id, project_ids) THEN TRUE
    ELSE IF InList(doc.session_project_id, project_ids) THEN TRUE
    ELSE IF doc.project_id = "default" /\ InList(doc.directory, project_ids) THEN TRUE
    ELSE IF doc.session_project_id = "default" /\ InList(doc.session_directory, project_ids)
         THEN TRUE
    ELSE FALSE

\* context._doc_matches_projects
context_doc_matches_projects(doc, project_ids) ==
    IF project_ids = NoList THEN TRUE
    ELSE IF project_ids = <<>> THEN FALSE
    ELSE IF InList(doc.project_id, project_ids) \/ InList(doc.session_project_id, project_ids)
         THEN TRUE
    ELSE IF doc.project_id = "default" /\ InList(doc.directory, project_ids) THEN TRUE
    ELSE IF doc.session_project_id = "default" /\ InList(doc.session_directory, project_ids)
         THEN TRUE
    ELSE FALSE

IdleScope == [pc |-> "idle", requested |-> None, current |-> None, related |-> NoList,
              include_all |-> NoFlag, default_related |-> <<>>,
              include_all_by_default |-> FALSE, default_project_id |-> "default",
              effective |-> None, scope |-> NoList, include_all_eff |-> FALSE,
              doc |-> NoDoc, kept |-> FALSE]

ScopeIdle == sc = IdleScope

\* A request and the settings it is served under.
InitScope ==
    sc \in {[IdleScope EXCEPT !.pc = "input", !.requested = r, !.current = c,
                              !.related = rel, !.include_all = ia,
                              !.default_related = drel,
                              !.include_all_by_default = dia,
                              !.default_project_id = dp] :
              r \in {None, "", "default", "b", "/a/"},
              c \in {None, "/", "/a/", "/cwd/b"},
              rel \in {NoList} \cup SeqUpTo(ProjectIds \ {"default"}, MaxRelated),
              ia \in {NoFlag, "true", "false"},
              drel \in {<<>>, <<"/a">>},
              dia \in BOOLEAN,
              dp \in {"default", "main"}}

\* search._resolve_project_scope, and lines 981-995 of
\* memory_context_for_request: the overrides, then the scope.
ResolveScopeCall ==
    /\ sc.pc = "input"
    /\ LET o == resolve_scope_overrides(sc.related, sc.include_all, sc.default_related,
                                        sc.include_all_by_default)
           r == resolve_project_scope(sc.requested, sc.current, o.related,
                                      o.include_all, sc.default_project_id)
       IN sc' = [sc EXCEPT !.pc = "resolved", !.effective = r.effective,
                           !.scope = r.scope, !.include_all_eff = o.include_all]
    /\ ScopeOnly

\* memory_search, lines 153-158: the filter over the merged results.
SearchFilter(doc) ==
    /\ sc.pc = "resolved"
    /\ sc' = [sc EXCEPT !.pc = "search_filtered", !.doc = doc,
                        !.kept = IF sc.scope # NoList
                                 THEN search_doc_matches_projects(doc, sc.scope)
                                 ELSE TRUE]
    /\ ScopeOnly

\* memory_context_for_request, line 1062 (and line 1020 for file hits).
ContextFilter(doc) ==
    /\ sc.pc = "resolved"
    /\ sc' = [sc EXCEPT !.pc = "context_filtered", !.doc = doc,
                        !.kept = context_doc_matches_projects(doc, sc.scope)]
    /\ ScopeOnly

\* The requests whose results are filtered.
InitFilter ==
    sc \in {[IdleScope EXCEPT !.pc = "input", !.requested = r, !.current = c,
                              !.related = rel, !.include_all = ia,
                              !.default_project_id = dp] :
              r \in {"default", "b"},
              c \in {None, "/a/"},
              rel \in {NoList, <<"/a">>, <<"/cwd/b">>},
              ia \in {NoFlag, "true"},
              dp \in {"default", "main"}}

\* resolve_project_scope called directly, as the tests do: the related list
\* and the flag are the caller's.
ResolveDirectCall ==
    /\ sc.pc = "input"
    /\ sc.include_all # NoFlag
    /\ LET r == resolve_project_scope(sc.requested, sc.current, sc.related,
                                      sc.include_all = "true", sc.default_project_id)
       IN sc' = [sc EXCEPT !.pc = "direct", !.effective = r.effective,
                           !.scope = r.scope,
                           !.include_all_eff = (sc.include_all = "true")]
    /\ ScopeOnly

(***************************************************************************)
(* GROUPING (_group_results and lines 1061-1079 of                         *)
(* memory_context_for_request), under the global scope.                    *)
(***************************************************************************)
MaxPool      == 3    \* length of the pool handed to the merge
MaxTypeLimit == 2    \* per_type_limit 1..MaxTypeLimit
MaxMsgLimit  == 2    \* message_limit 1..MaxMsgLimit

GroupNames == {"sessions", "messages", "summaries", "decisions", "bugs", "patterns",
               "thoughts", "other"}

NumGroupDocs == 4    \* stored documents 1..NumGroupDocs

\* The stored documents: two messages (msg::1, msg::2), a decision
\* (decision::1), a session (session::1); any further one is of no known
\* collection.  The kind of a document is the collection its id names and
\* the "type" field it is stored with (models.py).
GroupDocIds == 1..NumGroupDocs

KindOf(id) ==
    CASE id \in {1, 2} -> "message"
      [] id = 3        -> "decision"
      [] id = 4        -> "session"
      [] OTHER         -> ""

\* What the tiers return: "index" rows (_vector_search, _fts_search: id, score,
\* source and the projection of _fetch_document_text_only), "kv" rows (the
\* columns _kv_grep selects), "raw" rows (m.* and s.* of _raw_chat_fallback,
\* sessions and messages only).
GroupItems ==
    {r \in [id : GroupDocIds, score : 0..MaxScore, src : {"index", "kv", "raw"}] :
        r.src = "raw" => KindOf(r.id) \in {"message", "session"}}

\* r.get("type", ""): only a raw row carries the stored "type" field; the
\* projection (search.py:505-558) and the KV columns (search.py:252-335)
\* do not hold it.
rtype(r) == IF r.src = "raw" THEN KindOf(r.id) ELSE ""

\* Lines 445-460.
target_of(t) ==
    CASE t = "session"  -> "sessions"
      [] t = "message"  -> "messages"
      [] t = "summary"  -> "summaries"
      [] t = "decision" -> "decisions"
      [] t = "bug"      -> "bugs"
      [] t = "pattern"  -> "patterns"
      [] t = "thought"  -> "thoughts"
      [] OTHER          -> "other"

EmptyGroups == [g \in GroupNames |-> <<>>]

\* The loop of _group_results.
RECURSIVE group_loop(_, _, _)
group_loop(rs, grouped, per_type_limit) ==
    IF rs = <<>> THEN grouped
    ELSE LET target == target_of(rtype(Head(rs)))
         IN group_loop(Tail(rs),
                       IF Len(grouped[target]) < per_type_limit
                       THEN [grouped EXCEPT ![target] = Append(@, Head(rs))]
                       ELSE grouped,
                       per_type_limit)

group_results(rs, per_type_limit) == group_loop(rs, EmptyGroups, per_type_limit)

\* Lines 1066-1079: the groups of the response; messages are left out
\* without include_messages and cut to message_limit.
response_groups(grouped_raw, include_messages, message_limit) ==
    [g \in GroupNames |->
        IF g # "messages" THEN grouped_raw[g]
        ELSE IF ~include_messages THEN <<>>
        ELSE IF Len(grouped_raw[g]) > message_limit
             THEN SubSeq(grouped_raw[g], 1, message_limit)
             ELSE grouped_raw[g]]

IdleGroup == [pc |-> "idle", pool |-> <<>>, per_type_limit |-> 0, message_limit |-> 0,
              include_messages |-> FALSE, merged |-> <<>>,
              grouped_raw |-> EmptyGroups, grouped |-> EmptyGroups]

GroupIdle == grp = IdleGroup

InitGroup ==
    grp \in {[IdleGroup EXCEPT !.pc = "pool", !.pool = pool, !.per_type_limit = ptl,
                               !.message_limit = ml, !.include_messages = im] :
               pool \in SeqUpTo(GroupItems, MaxPool),
               ptl \in 1..MaxTypeLimit, ml \in 1..MaxMsgLimit, im \in BOOLEAN}

\* Line 1061: the merge of the pool.
GroupMerge ==
    /\ grp.pc = "pool"
    /\ grp' = [grp EXCEPT !.pc = "merged", !.merged = dedupe_results(grp.pool)]
    /\ GroupOnly

\* Lines 1063-1079: the grouper, and the groups of the response.
GroupCall ==
    /\ grp.pc = "merged"
    /\ LET grouped_raw == group_results(grp.merged, grp.per_type_limit)
       IN grp' = [grp EXCEPT !.pc = "grouped", !.grouped_raw = grouped_raw,
                             !.grouped = response_groups(grouped_raw, grp.include_messages,
                                                         grp.message_limit)]
    /\ GroupOnly

(***************************************************************************)
(* TOOL DISPATCH: memory_kv_semantic_search called through call_tool       *)
(* (server.py) or directly.                                                *)
(***************************************************************************)
MaxTermList == 2     \* length of the terms list

TermStrings == {"", " ", "db", " db "}

\* str.strip()
strip(t) ==
    CASE t = " "    -> ""
      [] t = " db " -> "db"
      [] OTHER      -> t

\* [t.strip() for t in terms if t and t.strip()]
RECURSIVE cleaned_terms(_)
cleaned_terms(terms) ==
    IF terms = <<>> THEN <<>>
    ELSE IF Head(terms) # "" /\ strip(Head(terms)) # ""
         THEN <<strip(Head(terms))>> \o cleaned_terms(Tail(terms))
         ELSE cleaned_terms(Tail(terms))

NoBackend == [importers |-> 0, queries |-> 0, embeddings |-> 0, searches |-> 0]

\* The six queries of _kv_grep; embed_one; one vector and one full-text
\* search on each of the two indexes.
KvQueries      == 6
IndexSearches  == 4

IdleTool == [pc |-> "idle", via |-> "none", terms |-> <<>>, enabled |-> FALSE,
             last_sync |-> 0, now |-> 0, sync_status |-> "none",
             backend |-> NoBackend, result |-> "none", nresults |-> 0]

ToolIdle == tool = IdleTool

\* A call through the server enters at the sync guard, a direct call at the
\* tool.  The cooldown state is any the guard can have left behind.
InitTool ==
    tool \in {[IdleTool EXCEPT !.pc = IF via = "server" THEN "guard" ELSE "tool",
                               !.via = via, !.terms = terms, !.enabled = en,
                               !.last_sync = last, !.now = now] :
                via \in {"server", "direct"},
                terms \in SeqUpTo(TermStrings, MaxTermList),
                en \in BOOLEAN,
                last \in 0..MaxClock, now \in 0..MaxClock}

\* call_tool, lines 329-336: the query-time sync, before the tool is
\* dispatched; maybe_auto_sync_recent without force.
ToolSyncGuard ==
    /\ tool.pc = "guard"
    /\ LET status == IF ~tool.enabled THEN "disabled"
                     ELSE IF in_cooldown(FALSE, tool.last_sync, tool.now - tool.last_sync)
                          THEN "skipped"
                     ELSE "ok"
       IN tool' = [tool EXCEPT !.pc = "tool", !.sync_status = status,
                               !.backend.importers = IF status = "ok" THEN 2 ELSE 0,
                               !.last_sync = IF status = "ok" THEN tool.now ELSE @]
    /\ ToolOnly

\* memory_kv_semantic_search, lines 190-193: no valid term.
KvSemanticNoTerms ==
    /\ tool.pc = "tool"
    /\ cleaned_terms(tool.terms) = <<>>
    /\ tool' = [tool EXCEPT !.pc = "done", !.result = "error", !.nresults = 0]
    /\ ToolOnly

\* memory_kv_semantic_search, lines 195-234: the KV grep and the semantic
\* search, which returns n items.
KvSemanticRun(n) ==
    /\ tool.pc = "tool"
    /\ cleaned_terms(tool.terms) # <<>>
    /\ tool' = [tool EXCEPT !.pc = "done", !.result = "results", !.nresults = n,
                            !.backend.queries = KvQueries,
                            !.backend.embeddings = 1,
                            !.backend.searches = IndexSearches]
    /\ ToolOnly

(***************************************************************************)
(* CONTEXT SYNTHESIS (_heuristic_context_summary, _llm_context_summary).   *)
(* A text is a sequence of characters, each tagged with the line it        *)
(* belongs to: "h" header, "b" evidence bullet, "m" marker, "c" content of *)
(* the external summary, "nl" the newline of the join.                     *)
(***************************************************************************)
MaxCandidates == 2   \* evidence candidates 0..MaxCandidates

ReasoningLabelLen == 18    \* "Context reasoning:"
TaskPrefixLen     == 6     \* "Task: "
EvidenceLabelLen  == 32    \* "Most relevant retrieved context:"
MarkerLen         == 42    \* "- No high-signal retrieved evidence found."
HeaderLines       == 5     \* the lines the summary starts with

QueryLen == 4    \* the length of the query
ReasoningLens == {0, 20}           \* lengths of context_reasoning_text
BulletLens    == {20, 60}          \* lengths of an evidence bullet
ContentLens   == {10, 200}         \* lengths of the external summary
Budgets       == {0, 1, 20, 30, 40, 60}    \* max_context_tokens

\* A candidate of _build_candidate_evidence: its signature (kind::text) and
\* the length of its bullet line.
Candidates == [sig : 1..MaxCandidates, len : BulletLens]

Chars(tag, n) == [i \in 1..n |-> tag]

\* "\n".join(lines)
RECURSIVE Join(_)
Join(lines) ==
    IF lines = <<>> THEN <<>>
    ELSE IF Len(lines) = 1 THEN lines[1]
    ELSE lines[1] \o <<"nl">> \o Join(Tail(lines))

\* Lines 687-693.
header_lines(reasoning_len) ==
    << Chars("h", ReasoningLabelLen), Chars("h", reasoning_len), <<>>,
       Chars("h", TaskPrefixLen + QueryLen), Chars("h", EvidenceLabelLen) >>

\* The loop of lines 695-705: a candidate seen before is skipped; a bullet
\* that takes the text over the budget is popped and ends the loop.
RECURSIVE evidence_loop(_, _, _, _)
evidence_loop(cands, lines, seen, max_context_tokens) ==
    IF cands = <<>> THEN lines
    ELSE IF Head(cands).sig \in seen
         THEN evidence_loop(Tail(cands), lines, seen, max_context_tokens)
    ELSE LET appended == Append(lines, Chars("b", Head(cands).len))
         IN IF estimate_tokens(Join(appended)) > max_context_tokens
            THEN lines
            ELSE evidence_loop(Tail(cands), appended, seen \cup {Head(cands).sig},
                               max_context_tokens)

\* The lines before the final join: with the marker if no bullet was kept.
summary_lines(cands, reasoning_len, max_context_tokens) ==
    LET lines == evidence_loop(cands, header_lines(reasoning_len), {}, max_context_tokens)
    IN IF Len(lines) <= HeaderLines THEN Append(lines, Chars("m", MarkerLen)) ELSE lines

heuristic_context_summary(cands, reasoning_len, max_context_tokens) ==
    trim_to_token_budget(Join(summary_lines(cands, reasoning_len, max_context_tokens)),
                         max_context_tokens)

\* What the external summarizer does: it raises, or returns no content, or
\* blank content, or a text.
LlmOutcomes ==
    {[kind |-> k, len |-> 0] : k \in {"raises", "none", "blank"}}
    \cup [kind : {"text"}, len : ContentLens]

\* _llm_context_summary without the test of line 761 for empty content.
llm_context_summary_unchecked(api_key, cands, reasoning_len, max_context_tokens, o) ==
    IF ~api_key THEN heuristic_context_summary(cands, reasoning_len, max_context_tokens)
    ELSE IF cands = <<>>
         THEN heuristic_context_summary(cands, reasoning_len, max_context_tokens)
    ELSE IF o.kind = "raises"
         THEN heuristic_context_summary(cands, reasoning_len, max_context_tokens)
    ELSE trim_to_token_budget(Chars("c", o.len), max_context_tokens)

\* _llm_context_summary: `o` is what the call of lines 734-759 does; the
\* content is stripped, so blank content is empty.
llm_context_summary(api_key, cands, reasoning_len, max_context_tokens, o) ==
    IF ~api_key THEN heuristic_context_summary(cands, reasoning_len, max_context_tokens)
    ELSE IF cands = <<>>
         THEN heuristic_context_summary(cands, reasoning_len, max_context_tokens)
    ELSE IF o.kind = "raises"
         THEN heuristic_context_summary(cands, reasoning_len, max_context_tokens)
    ELSE IF o.kind \in {"none", "blank"}
         THEN heuristic_context_summary(cands, reasoning_len, max_context_tokens)
    ELSE trim_to_token_budget(Chars("c", o.len), max_context_tokens)

IdleSummary == [pc |-> "idle", api_key |-> FALSE, cands |-> <<>>, reasoning_len |-> 0,
                max_context_tokens |-> 0, outcome |-> [kind |-> "none", len |-> 0],
                bullets |-> 0, heuristic |-> <<>>, llm |-> <<>>]

SummaryIdle == sm = IdleSummary

InitSummary ==
    sm \in {[IdleSummary EXCEPT !.pc = "input", !.api_key = k, !.cands = cs,
                                !.reasoning_len = r, !.max_context_tokens = m] :
              k \in BOOLEAN, cs \in SeqUpTo(Candidates, MaxCandidates),
              r \in ReasoningLens, m \in Budgets}

\* _heuristic_context_summary on the inputs; bullets: the evidence lines kept.
HeuristicCall ==
    /\ sm.pc = "input"
    /\ sm' = [sm EXCEPT
                !.pc = "heuristic",
                !.bullets = Len(evidence_loop(sm.cands, header_lines(sm.reasoning_len), {},
                                              sm.max_context_tokens)) - HeaderLines,
                !.heuristic = heuristic_context_summary(sm.cands, sm.reasoning_len,
                                                        sm.max_context_tokens)]
    /\ SummaryOnly

\* _llm_context_summary on the same inputs.
LlmCall(o) ==
    /\ sm.pc = "heuristic"
    /\ sm' = [sm EXCEPT !.pc = "llm", !.outcome = o,
                        !.llm = llm_context_summary(sm.api_key, sm.cands, sm.reasoning_len,
                                                    sm.max_context_tokens, o)]
    /\ SummaryOnly

(***************************************************************************)
(* THE SERVER'S TOOL CALLS (call_tool, server.py, over                     *)
(* maybe_auto_sync_recent, sync.py).  call_tool is a coroutine of one      *)
(* event loop and maybe_auto_sync_recent is synchronous, so the calls of   *)
(* the server follow one another; maybe_auto_sync_recent is here the       *)
(* function of its arguments and of the cooldown state that it is for a    *)
(* single caller.                                                          *)
(***************************************************************************)
MaxToolCalls == 2    \* calls made in one run of the server

QUERY_TOOLS ==
    {"memory_search", "memory_kv_semantic_search", "memory_recall_decision",
     "memory_recall_bug", "memory_list_sessions", "memory_get_session",
     "memory_project_context", "memory_context_for_request"}

IngestTools == {"memory_ingest_session", "memory_ingest_message"}

SaveTools ==
    {"memory_save_decision", "memory_save_bug", "memory_save_thought", "memory_save_pattern"}

Handled   == QUERY_TOOLS \cup IngestTools \cup SaveTools     \* the branches of call_tool
ToolNames == Handled \cup {"no_such_tool"}
NoTool    == "none"
Direct    == "direct"      \* maybe_auto_sync_recent called without call_tool

\* `if name in QUERY_TOOLS`, with the ingest tools taken for query tools.
in_query_tools_or_ingest(name) == name \in QUERY_TOOLS \cup IngestTools

\* `if name in QUERY_TOOLS` (line 330)
in_query_tools(name) == name \in QUERY_TOOLS

\* What one importer does in a sync: it is switched off by its setting, or
\* its run returns, or its construction or its run raises.
ImporterRuns == {"off", "returns", "raises"}

\* _run_sync without its try/except: the exception leaves the function.
run_sync_uncaught(o) ==
    CASE o = "off" -> "disabled"
      [] o = "raises" -> "raised"
      [] OTHER -> "ok"

\* _run_sync: the "status" of the dict it returns.
run_sync(o) ==
    CASE o = "off" -> "disabled"
      [] o = "raises" -> "error"
      [] OTHER -> "ok"

NoSyncResult == [status |-> "none", claude |-> "none", codex |-> "none"]     \* None

\* The skipped return, with the call's time written to the cooldown state.
skipped_return_stamped(now, last, result) ==
    [status |-> "skipped", last_sync |-> now, last_result |-> result, ran |-> 0]

\* Lines 116-121: the return of a call in cooldown.
skipped_return(now, last, result) ==
    [status |-> "skipped", last_sync |-> last, last_result |-> result, ran |-> 0]

\* maybe_auto_sync_recent: the status of the dict it returns ("raised": an
\* exception leaves it), the cooldown state it leaves, and the number of
\* importer syncs it called.
maybe_auto_sync_recent(enabled, force, now, last, result, claude, codex) ==
    IF ~enabled
    THEN [status |-> "disabled", last_sync |-> last, last_result |-> result, ran |-> 0]
    ELSE IF in_cooldown(force, last, now - last)
    THEN skipped_return(now, last, result)
    ELSE IF run_sync(claude) = "raised"
    THEN [status |-> "raised", last_sync |-> last, last_result |-> result, ran |-> 1]
    ELSE IF run_sync(codex) = "raised"
    THEN [status |-> "raised", last_sync |-> last, last_result |-> result, ran |-> 2]
    ELSE [status |-> "ok", last_sync |-> now,
          last_result |-> [status |-> "ok", claude |-> run_sync(claude),
                           codex |-> run_sync(codex)],
          ran |-> 2]

NoSync == [status |-> "none", ran |-> 0, before_sync |-> 0, before_result |-> NoSyncResult,
           claude |-> "off", codex |-> "off"]

\* since: the last sync that ran before this call: when, and whether one of
\* its importers failed (an observation, not program state).
NoSince == [time |-> -1, failed |-> FALSE]

IdleServer == [pc |-> "idle", calls |-> 0, clock |-> 0, enabled |-> FALSE,
               last_sync |-> 0, last_result |-> NoSyncResult,
               name |-> NoTool, force |-> FALSE, now |-> 0,
               guard_calls |-> 0, pipeline_runs |-> 0, guard_late |-> FALSE,
               sync |-> NoSync, pipeline |-> "none", response |-> "none",
               since |-> NoSince, prev |-> NoSince]

ServerIdle == srv = IdleServer

\* Module import (sync.py 15-17) and the setting auto_import_on_query.
InitServer == srv \in {[IdleServer EXCEPT !.enabled = en] : en \in BOOLEAN}

\* time.monotonic() advances between calls.
ServerTick ==
    /\ srv.pc \in {"idle", "done"}
    /\ srv.clock < MaxClock
    /\ srv' = [srv EXCEPT !.clock = @ + 1]
    /\ ServerOnly

\* call_tool is entered (lines 321-327).
CallTool(name) ==
    /\ srv.pc \in {"idle", "done"}
    /\ srv.calls < MaxToolCalls
    /\ srv' = [srv EXCEPT !.pc = "called", !.calls = @ + 1, !.name = name,
                          !.force = FALSE, !.now = srv.clock,
                          !.guard_calls = 0, !.pipeline_runs = 0, !.guard_late = FALSE,
                          !.sync = NoSync, !.pipeline = "none", !.response = "none",
                          !.since = srv.prev]
    /\ ServerOnly

\* The effect of one call of maybe_auto_sync_recent on the server's state.
Synced(force, now, claude, codex) ==
    LET r == maybe_auto_sync_recent(srv.enabled, force, now, srv.last_sync,
                                    srv.last_result, claude, codex)
    IN [srv EXCEPT
          !.last_sync = r.last_sync,
          !.last_result = r.last_result,
          !.guard_calls = @ + 1,
          !.guard_late = @ \/ srv.pipeline_runs > 0,
          !.sync = [status |-> r.status, ran |-> r.ran,
                    before_sync |-> srv.last_sync, before_result |-> srv.last_result,
                    claude |-> claude, codex |-> codex],
          !.prev = IF r.status = "ok"
                   THEN [time |-> now,
                         failed |-> "raises" \in {claude, codex}]
                   ELSE @]

\* Lines 330-336: the query-time sync of a query tool.  An exception that
\* leaves it is caught at line 378 and the tool is not dispatched.
CallToolSync(claude, codex) ==
    /\ srv.pc = "called"
    /\ in_query_tools(srv.name)
    /\ LET after == Synced(FALSE, srv.now, claude, codex)
       IN srv' = IF after.sync.status = "raised"
                 THEN [after EXCEPT !.pc = "done", !.response = "error"]
                 ELSE [after EXCEPT !.pc = "dispatch"]
    /\ ServerOnly

\* Line 330 for any other tool: no sync.
CallToolNoSync ==
    /\ srv.pc = "called"
    /\ ~in_query_tools(srv.name)
    /\ srv' = [srv EXCEPT !.pc = "dispatch"]
    /\ ServerOnly

\* Lines 338-382: the tool's pipeline runs and returns its result, or it
\* raises and the handler of line 378 makes the error result; a name that
\* is no tool gets the error result of line 376.
CallToolDispatch(outcome) ==
    /\ srv.pc = "dispatch"
    /\ srv' = IF srv.name \in Handled
              THEN [srv EXCEPT !.pc = "done", !.pipeline_runs = @ + 1,
                               !.pipeline = outcome,
                               !.response = IF outcome = "returns" THEN "normal"
                                            ELSE "error"]
              ELSE [srv EXCEPT !.pc = "done", !.response = "error"]
    /\ ServerOnly

\* maybe_auto_sync_recent called directly (force and now_monotonic are its
\* parameters), as the tests do.
SyncDirect(force, claude, codex) ==
    /\ srv.pc \in {"idle", "done"}
    /\ srv.calls < MaxToolCalls
    /\ LET entered == [srv EXCEPT !.calls = @ + 1, !.name = Direct, !.force = force,
                                  !.now = srv.clock, !.guard_calls = 0,
                                  !.pipeline_runs = 0, !.guard_late = FALSE,
                                  !.pipeline = "none", !.response = "none",
                                  !.since = srv.prev]
           r == maybe_auto_sync_recent(srv.enabled, force, srv.clock, srv.last_sync,
                                       srv.last_result, claude, codex)
       IN srv' = [entered EXCEPT
                    !.pc = "done",
                    !.last_sync = r.last_sync,
                    !.last_result = r.last_result,
                    !.guard_calls = 1,
                    !.sync = [status |-> r.status, ran |-> r.ran,
                              before_sync |-> srv.last_sync,
                              before_result |-> srv.last_result,
                              claude |-> claude, codex |-> codex],
                    !.prev = IF r.status = "ok"
                             THEN [time |-> srv.clock,
                                   failed |-> "raises" \in {claude, codex}]
                             ELSE @]
    /\ ServerOnly

(***************************************************************************)
(* RAW-CHAT RANKING: _raw_chat_fallback for a query of 0..12 terms, and    *)
(* the merge of its rows by _dedupe_results.                               *)
(***************************************************************************)
MaxQueryTerms == 12     \* _extract_query_terms returns unique[:12]

IdleRaw == [pc |-> "idle", nterms |-> 0,
            mo |-> [ok |-> FALSE, n |-> 0, hits |-> 0],
            so |-> [ok |-> FALSE, n |-> 0, hits |-> 0],
            rows |-> <<>>, ranked |-> <<>>]

RawIdle == raw = IdleRaw

\* A query with n terms; what the message query and the session query do.
InitRaw ==
    raw \in {[IdleRaw EXCEPT !.pc = "input", !.nterms = n, !.mo = mo, !.so = so] :
               n \in 0..MaxQueryTerms, mo \in QueryOutcomes(MaxQueryTerms),
               so \in QueryOutcomes(MaxQueryTerms)}
    /\ raw.mo.hits <= raw.nterms
    /\ raw.so.hits <= raw.nterms

\* _raw_chat_fallback (line 1054).
RawFallbackCall ==
    /\ raw.pc = "input"
    /\ raw' = [raw EXCEPT !.pc = "fetched",
                          !.rows = raw_chat_fallback(raw.mo, raw.so, raw.nterms)]
    /\ RawRankOnly

\* _dedupe_results (line 1061).
RawMergeCall ==
    /\ raw.pc = "fetched"
    /\ raw' = [raw EXCEPT !.pc = "ranked", !.ranked = dedupe_results(raw.rows)]
    /\ RawRankOnly

(***************************************************************************)
(* IMPORTERS (CodexImporter, ClaudeCodeImporter over BaseImporter).  The   *)
(* source directory holds session files, file i with a number of messages  *)
(* (0: no message can be read from it); the store holds session documents  *)
(* and message documents, keyed by their ids.                              *)
(***************************************************************************)
MaxFiles    == 3     \* session files in the source directory: 1..MaxFiles
MaxMessages == 2     \* messages in one session file: 0..MaxMessages
MaxRuns     == 3     \* runs of the importer over the directory

Importers == {"codex", "claude-code"}

NoStats == [sessions_imported |-> 0, messages_imported |-> 0, sessions_skipped |-> 0,
            files_scanned |-> 0]

EmptyStore == [sessions |-> {}, messages |-> {}]

\* _import_session_file / _import_session on file f with n messages, the
\* store being st: nothing is done for a file without messages; otherwise
\* the session's messages are deleted (best effort: delete_ok), the messages
\* and the session are upserted, and (True, len(messages)) is returned.
\* Whether the session is in the store already is not looked at.
import_session_file(f, n, st, delete_ok) ==
    IF n = 0 THEN [imported |-> FALSE, count |-> 0, store |-> st]
    ELSE [imported |-> TRUE, count |-> n,
          store |-> [sessions |-> st.sessions \cup {f},
                     messages |-> (IF delete_ok
                                   THEN {m \in st.messages : m[1] # f}
                                   ELSE st.messages)
                                  \cup {<<f, i>> : i \in 1..n}]]

\* The loop of run over the session files, from file f on.
RECURSIVE run_loop(_, _, _, _, _)
run_loop(files, f, stats, st, delete_ok) ==
    IF f > Len(files) THEN [stats |-> stats, store |-> st]
    ELSE LET r == import_session_file(f, files[f], st, delete_ok)
             scanned == [stats EXCEPT !.files_scanned = @ + 1]
         IN run_loop(files, f + 1,
                     IF r.imported
                     THEN [scanned EXCEPT !.sessions_imported = @ + 1,
                                          !.messages_imported = @ + r.count]
                     ELSE [scanned EXCEPT !.sessions_skipped = @ + 1],
                     r.store, delete_ok)

\* run(path) over a directory that exists.
importer_run(files, st, delete_ok) == run_loop(files, 1, NoStats, st, delete_ok)

IdleImport == [pc |-> "idle", importer |-> "none", files |-> <<>>, runs |-> 0,
               store |-> EmptyStore, before |-> EmptyStore, stats |-> NoStats]

ImportIdle == imp = IdleImport

\* An importer, a source directory, an empty store.
InitImport ==
    imp \in {[IdleImport EXCEPT !.pc = "ready", !.importer = k, !.files = fs] :
               k \in Importers, fs \in SeqUpTo(0..MaxMessages, MaxFiles)}

\* One run of the importer over the unchanged directory.  before: the store
\* as the run found it.
ImporterRun(delete_ok) ==
    /\ imp.pc = "ready"
    /\ imp.runs < MaxRuns
    /\ LET r == importer_run(imp.files, imp.store, delete_ok)
       IN imp' = [imp EXCEPT !.runs = @ + 1, !.before = imp.store,
                             !.store = r.store, !.stats = r.stats]
    /\ ImportOnly

(***************************************************************************)
(* KV + SEMANTIC RANKING: memory_kv_semantic_search over a KV grep and the *)
(* two index searches.  The score of an index row is the index's own       *)
(* (row.score, lines 427-431 and 469-473): the dot product of two          *)
(* embeddings, or a full-text relevance, for which the program has no      *)
(* upper bound.                                                            *)
(***************************************************************************)
MaxVectorHits == 2     \* rows the vector search returns here: 0..MaxVectorHits

\* 0.1, 0.9 and 12.0
NativeScores == IndexScores \cup {12 * ScoreUnit}

\* What one index search does, the score being any the index can give.
NativeOutcomes(maxn) ==
    {[ok |-> FALSE, n |-> 0, score |-> 0], [ok |-> TRUE, n |-> 0, score |-> 0]}
    \cup [ok : {TRUE}, n : 1..maxn, score : NativeScores]

IdleKv == [pc |-> "idle", limit |-> 0, embedOk |-> FALSE,
           ko |-> [ok |-> FALSE, n |-> 0, hits |-> 0],
           vo |-> [ok |-> FALSE, n |-> 0, score |-> 0],
           fo |-> [ok |-> FALSE, n |-> 0, score |-> 0],
           result |-> <<>>]

KvIdle == kvs = IdleKv

\* A call with valid terms, and what the store and the indexes do in it.
InitKv ==
    kvs \in {[IdleKv EXCEPT !.pc = "input", !.limit = l, !.embedOk = e, !.ko = ko,
                            !.vo = vo, !.fo = fo] :
               l \in Limits, e \in BOOLEAN, ko \in QueryOutcomes(MaxTerms),
               vo \in NativeOutcomes(MaxVectorHits), fo \in NativeOutcomes(MaxFts)}

\* memory_kv_semantic_search, lines 210-234.
KvSemanticSearchCall ==
    /\ kvs.pc = "input"
    /\ LET r == memory_kv_semantic_search(kvs.ko, kvs.embedOk, kvs.vo, kvs.fo, kvs.limit, 2)
       IN kvs' = IF r = Raised THEN [kvs EXCEPT !.pc = Raised]
                 ELSE [kvs EXCEPT !.pc = "done", !.result = r]
    /\ KvOnly

(***************************************************************************)
(* SPECIFICATIONS                                                          *)
(***************************************************************************)

\* The sync guard under concurrent callers of maybe_auto_sync_recent.
Init == InitSync /\ MergeIdle /\ TrimIdle /\ CtxIdle /\ ScopeIdle /\ GroupIdle /\ ToolIdle /\ SummaryIdle /\ ServerIdle /\ RawIdle /\ ImportIdle /\ KvIdle

Next ==
    \/ Tick
    \/ \E c \in Callers : CallDisabled(c)
    \/ \E c \in Callers, force \in BOOLEAN : CallBegin(c, force)
    \/ \E c \in Callers : Check(c)
    \/ \E c \in Callers, claude \in Outcomes, codex \in Outcomes : RunSync(c, claude, codex)
    \/ \E c \in Callers : Return(c)

Spec == Init /\ [][Next]_vars

\* The same, with _reset_query_sync_state_for_tests callable at any moment.
NextReset ==
    \/ Next
    \/ Reset

SpecReset == Init /\ [][NextReset]_vars

\* The sync guard with threads that run when they can: a caller that can
\* take the lock does, an importer sync in progress ends (every importer run
\* returns or raises), and a call that has its result is left.
Fairness ==
    \A c \in Callers :
       /\ WF_vars(Check(c))
       /\ WF_vars(\E claude \in Outcomes, codex \in Outcomes : RunSync(c, claude, codex))
       /\ WF_vars(Return(c))

SpecLive == Init /\ [][Next]_vars /\ Fairness

\* The merge step applied to every bounded input list.
InitMergeSpec == InitMerge /\ InitSync /\ TrimIdle /\ CtxIdle /\ ScopeIdle /\ GroupIdle /\ ToolIdle /\ SummaryIdle /\ ServerIdle /\ RawIdle /\ ImportIdle /\ KvIdle

NextMerge ==
    \/ DedupeCall
    \/ SearchMergeCall

SpecMerge == InitMergeSpec /\ [][NextMerge]_vars

\* The trim applied to every bounded text and budget.
InitTrimSpec == InitTrim /\ InitSync /\ MergeIdle /\ CtxIdle /\ ScopeIdle /\ GroupIdle /\ ToolIdle /\ SummaryIdle /\ ServerIdle /\ RawIdle /\ ImportIdle /\ KvIdle

NextTrim ==
    \/ TrimCall
    \/ ContextTextCall

SpecTrim == InitTrimSpec /\ [][NextTrim]_vars

\* One request through memory_context_for_request.
InitCtxSpec == InitCtx /\ InitSync /\ MergeIdle /\ TrimIdle /\ ScopeIdle /\ GroupIdle /\ ToolIdle /\ SummaryIdle /\ ServerIdle /\ RawIdle /\ ImportIdle /\ KvIdle

NextCtx ==
    \/ \E e \in BOOLEAN, vo \in SearchOutcomes(MaxHits), fo \in SearchOutcomes(MaxFts) :
          Tier1(e, vo, fo)
    \/ \E fo \in SearchOutcomes(MaxFts) : FilePaths(fo)
    \/ NoFilePaths
    \/ Tier2Skip
    \/ \E ko \in QueryOutcomes(req.nterms), e \in BOOLEAN,
          vo \in SearchOutcomes(MaxFts), fo \in SearchOutcomes(0) :
          Tier2(ko, e, vo, fo)
    \/ \E mo \in QueryOutcomes(req.nterms), so \in QueryOutcomes(req.nterms) :
          Tier3(mo, so)
    \/ Merge

SpecCtx == InitCtxSpec /\ [][NextCtx]_vars

\* The scope resolution applied to every bounded request.
InitScopeSpec == InitScope /\ InitSync /\ MergeIdle /\ TrimIdle /\ CtxIdle /\ GroupIdle /\ ToolIdle /\ SummaryIdle /\ ServerIdle /\ RawIdle /\ ImportIdle /\ KvIdle

NextScope ==
    \/ ResolveScopeCall
    \/ ResolveDirectCall

SpecScope == InitScopeSpec /\ [][NextScope]_vars

\* The scope filter applied to every document under a resolved scope.
InitFilterSpec == InitFilter /\ InitSync /\ MergeIdle /\ TrimIdle /\ CtxIdle /\ GroupIdle /\ ToolIdle /\ SummaryIdle /\ ServerIdle /\ RawIdle /\ ImportIdle /\ KvIdle

NextFilter ==
    \/ ResolveScopeCall
    \/ \E doc \in Docs : SearchFilter(doc)
    \/ \E doc \in Docs : ContextFilter(doc)

SpecFilter == InitFilterSpec /\ [][NextFilter]_vars

\* The merge and the grouper applied to every bounded pool.
InitGroupSpec == InitGroup /\ InitSync /\ MergeIdle /\ TrimIdle /\ CtxIdle /\ ScopeIdle /\ ToolIdle /\ SummaryIdle /\ ServerIdle /\ RawIdle /\ ImportIdle /\ KvIdle

NextGroup ==
    \/ GroupMerge
    \/ GroupCall

SpecGroup == InitGroupSpec /\ [][NextGroup]_vars

\* One call of memory_kv_semantic_search, through the server or directly.
InitToolSpec == InitTool /\ InitSync /\ MergeIdle /\ TrimIdle /\ CtxIdle /\ ScopeIdle /\ GroupIdle /\ SummaryIdle /\ ServerIdle /\ RawIdle /\ ImportIdle /\ KvIdle

NextTool ==
    \/ ToolSyncGuard
    \/ KvSemanticNoTerms
    \/ \E n \in 0..1 : KvSemanticRun(n)

SpecTool == InitToolSpec /\ [][NextTool]_vars

\* The two synthesizers applied to the same bounded inputs.
InitSummarySpec == InitSummary /\ InitSync /\ MergeIdle /\ TrimIdle /\ CtxIdle /\ ScopeIdle /\ GroupIdle /\ ToolIdle /\ ServerIdle /\ RawIdle /\ ImportIdle /\ KvIdle

NextSummary ==
    \/ HeuristicCall
    \/ \E o \in LlmOutcomes : LlmCall(o)

SpecSummary == InitSummarySpec /\ [][NextSummary]_vars

\* The server handling a bounded number of tool calls, one after another.
InitServerSpec == InitServer /\ InitSync /\ MergeIdle /\ TrimIdle /\ CtxIdle /\ ScopeIdle /\ GroupIdle /\ ToolIdle /\ SummaryIdle /\ RawIdle /\ ImportIdle /\ KvIdle

NextServer ==
    \/ ServerTick
    \/ \E name \in ToolNames : CallTool(name)
    \/ \E claude \in ImporterRuns, codex \in ImporterRuns : CallToolSync(claude, codex)
    \/ CallToolNoSync
    \/ \E outcome \in {"returns", "raises"} : CallToolDispatch(outcome)
    \/ \E force \in BOOLEAN, claude \in ImporterRuns, codex \in ImporterRuns : SyncDirect(force, claude, codex)

SpecServer == InitServerSpec /\ [][NextServer]_vars

\* The raw fallback and the merge applied to every bounded outcome of the
\* two queries.
InitRawSpec == InitRaw /\ InitSync /\ MergeIdle /\ TrimIdle /\ CtxIdle /\ ScopeIdle /\ GroupIdle /\ ToolIdle /\ SummaryIdle /\ ServerIdle /\ ImportIdle /\ KvIdle

NextRaw ==
    \/ RawFallbackCall
    \/ RawMergeCall

SpecRaw == InitRawSpec /\ [][NextRaw]_vars

\* An importer run again and again over one source directory.
InitImportSpec == InitImport /\ InitSync /\ MergeIdle /\ TrimIdle /\ CtxIdle /\ ScopeIdle /\ GroupIdle /\ ToolIdle /\ SummaryIdle /\ ServerIdle /\ RawIdle /\ KvIdle

NextImport == \E delete_ok \in BOOLEAN : ImporterRun(delete_ok)

SpecImport == InitImportSpec /\ [][NextImport]_vars

\* memory_kv_semantic_search applied to every bounded outcome of its backends.
InitKvSpec == InitKv /\ InitSync /\ MergeIdle /\ TrimIdle /\ CtxIdle /\ ScopeIdle /\ GroupIdle /\ ToolIdle /\ SummaryIdle /\ ServerIdle /\ RawIdle /\ ImportIdle

NextKv == KvSemanticSearchCall

SpecKv == InitKvSpec /\ [][NextKv]_vars

(***************************************************************************)
(* PROPERTIES                                                              *)
(***************************************************************************)

MergeDone == mstate \in {"deduped", "searched"}

\* C1: the merge step (_dedupe_results, and the inline merge of
\* memory_search) returns a list in which no two items share an id; every
\* item of it is an item of the input, and its score is the greatest among
\* the input items of its id; every id of the input has an item in it (but
\* for the falsy id, which _dedupe_results drops).
C1_MergeKeepsBest ==
    MergeDone =>
       /\ \A i, j \in 1..Len(merged) : i # j => merged[i].id # merged[j].id
       /\ \A i \in 1..Len(merged) : \E k \in 1..Len(results) : results[k] = merged[i]
       /\ \A i \in 1..Len(merged) : \A k \in 1..Len(results) :
             results[k].id = merged[i].id => score_key(results[k]) <= score_key(merged[i])
       /\ \A k \in 1..Len(results) :
             (results[k].id # NoId \/ mstate = "searched")
                => \E i \in 1..Len(merged) : merged[i].id = results[k].id

\* An id comes twice with two scores, the lower first, and the merge has run.
C1_Witness ==
    /\ mstate = "deduped"
    /\ \E k1, k2 \in 1..Len(results) :
          /\ k1 < k2
          /\ results[k1].id = results[k2].id
          /\ results[k1].id # NoId
          /\ score_key(results[k1]) < score_key(results[k2])
          /\ \E i \in 1..Len(merged) : merged[i] = results[k2]

Decided(c) == call[c].pc = "sync" \/ (call[c].pc = "ret" /\ call[c].status = "skipped")

\* C2: once a sync has occurred, at time t0, a call that is not forced, at
\* time t with t - t0 < the interval, returns "skipped" and runs no importer;
\* a call with t - t0 >= the interval, and every forced call, runs the
\* importer syncs, both of them, and returns "ok".  (prior: a sync has
\* occurred; elapsed: t - t0, t0 the time recorded for the last sync.)
C2_Cooldown ==
    \A c \in Callers :
       /\ Decided(c) =>
            /\ (~call[c].force /\ call[c].prior /\ call[c].elapsed < interval_seconds)
                  => (call[c].pc = "ret" /\ call[c].status = "skipped" /\ call[c].ran = {})
            /\ (call[c].force \/ (call[c].prior /\ call[c].elapsed >= interval_seconds))
                  => call[c].pc = "sync"
       /\ (call[c].pc = "ret" /\ call[c].status = "ok") => call[c].ran = {"claude", "codex"}

\* C3: any two syncs that are not forced (and have no forced sync between
\* them) begin at least the interval apart.  Stated for a last sync recorded
\* at a time > 0.
C3_OneSyncPerWindow == ~hist.close

\* C4: at most one caller is inside the importer syncs, and the cooldown
\* state is read and written only by a thread that holds the lock.
C4_Serialized ==
    /\ Cardinality({c \in Callers : InSync(c)}) <= 1
    /\ ~hist.unguarded

\* C5: a caller that is not forced and arrived while another caller's sync
\* was in progress runs no sync of its own when it gets the lock.  Stated for
\* a last sync recorded at a time > 0, the one case in which line 115 takes
\* a sync to have occurred.
C5_BlockedCallerSkips ==
    \A c \in Callers :
       (call[c].mid /\ ~call[c].force /\ last_sync > 0) => call[c].pc # "sync"

TrimDone == tstate \in {"trimmed", "context_text"}

\* C6: for max_context_tokens >= 1 the trimmed text is at most
\* max_context_tokens * 4 characters long.
C6_TrimWithinBudget ==
    (TrimDone /\ max_tokens >= 1) => Len(trimmed) <= max_tokens * 4

\* max(4, limit/2), written out
TierFloor == IF req.limit \div 2 > 4 THEN req.limit \div 2 ELSE 4

\* C7: the KV + semantic fallback is invoked only when the primary search
\* returned fewer than max(4, limit/2) items, and never when it returned at
\* least that many.
C7_Tier2Gate ==
    /\ req.kv_calls > 0 => req.primary_hits < TierFloor
    /\ req.primary_hits >= TierFloor => req.kv_calls = 0
    /\ req.kv_calls <= 1

\* The primary search returned the floor or more for a query with terms, the
\* request is done, and the KV + semantic fallback was not invoked.
C7_Witness ==
    /\ req.pc = "done"
    /\ req.nterms > 0
    /\ req.primary_hits >= TierFloor
    /\ req.kv_calls = 0

Ended == req.pc \in {"done", Raised}

\* C8: every execution of memory_context_for_request runs the raw chat
\* fallback exactly once, whatever the earlier tiers found and whether or not
\* they failed, and its items are in the pool that is merged.
C8_RawFallbackOnce ==
    /\ Ended => req.raw_calls = 1
    /\ req.pc = "done" => Len(req.results) >= req.raw_fallback_hits

RawOnly(r) ==
    /\ r.tier = 3
    /\ \A k \in 1..Len(req.results) : req.results[k].id = r.id => req.results[k].tier = 3

\* C9: in the merged list no item that only the raw fallback retrieved stands
\* before an item of tier 1 or 2 with a positive score, and every score of the
\* raw fallback is below every such score.
C9_ScoreCeiling ==
    req.pc = "done" =>
       /\ \A i, j \in 1..Len(req.ranked) :
             (i < j /\ RawOnly(req.ranked[i]))
                => ~(req.ranked[j].tier \in {1, 2} /\ req.ranked[j].score > 0)
       /\ \A i, j \in 1..Len(req.results) :
             (req.results[i].tier = 3 /\ req.results[j].tier \in {1, 2}
                /\ req.results[j].score > 0)
                => req.results[i].score < req.results[j].score

\* C10: a tier whose external calls fail contributes no item, the other
\* tiers still run, and the request ends with a response, never an error.
C10_TierFaultTolerant ==
    /\ req.pc # Raised
    /\ 1 \in req.down => req.primary_hits = 0
    /\ 2 \in req.down => req.kv_semantic_hits = 0
    /\ 3 \in req.down => req.raw_fallback_hits = 0
    /\ (req.pc = "done" /\ req.down # {}) => req.raw_calls = 1

ScopeDone == sc.pc \in {"resolved", "direct"}

\* include_all resolves to true: asked for, or left unset under a default of true
IncludeAllAsked ==
    \/ sc.include_all = "true"
    \/ sc.pc = "resolved" /\ sc.include_all = NoFlag /\ sc.include_all_by_default

\* the related list in force: the request's, or the configured default
RelatedAsked ==
    IF sc.related # NoList THEN sc.related
    ELSE IF sc.pc = "resolved" THEN sc.default_related ELSE <<>>

\* C11: when include_all resolves to true, asked for or by the configured
\* default, the scope returned is None (global) whatever the related list
\* holds, and the effective project is still resolved (it is a project id).
C11_GlobalScope ==
    (ScopeDone /\ IncludeAllAsked) =>
       /\ sc.scope = NoList
       /\ ~Falsy(sc.effective)

\* include_all was left unset and is true by default, related projects were
\* given, and the scope came out global.
C11_Witness ==
    /\ sc.pc = "resolved"
    /\ sc.include_all = NoFlag
    /\ sc.include_all_by_default
    /\ sc.related # NoList
    /\ \E i \in 1..Len(sc.related) : NonTrivial(normalize_project_path(sc.related[i]))
    /\ sc.scope = NoList

FirstAt(ids, n) ==
    CHOOSE i \in 1..Len(ids) :
       /\ normalize_project_path(ids[i]) = n
       /\ \A j \in 1..(i - 1) : normalize_project_path(ids[j]) # n

\* C12: a scope that is not None is not empty, begins with the effective
\* project, holds no entry twice, and after its first element holds the
\* normalized related project ids, each once, in the order in which they are
\* first seen, without the effective project.
C12_ScopeShape ==
    (ScopeDone /\ sc.scope # NoList) =>
       /\ Len(sc.scope) >= 1
       /\ sc.scope[1] = sc.effective
       /\ \A i, j \in 1..Len(sc.scope) : i # j => sc.scope[i] # sc.scope[j]
       /\ \A i \in 2..Len(sc.scope) :
             /\ sc.scope[i] # sc.effective
             /\ NonTrivial(sc.scope[i])
             /\ \E k \in 1..Len(RelatedAsked) :
                   normalize_project_path(RelatedAsked[k]) = sc.scope[i]
       /\ \A k \in 1..Len(RelatedAsked) :
             LET n == normalize_project_path(RelatedAsked[k])
             IN (NonTrivial(n) /\ n # sc.effective)
                   => \E i \in 2..Len(sc.scope) : sc.scope[i] = n
       /\ \A i, j \in 2..Len(sc.scope) :
             i < j => FirstAt(RelatedAsked, sc.scope[i]) < FirstAt(RelatedAsked, sc.scope[j])

\* Two related ids were given: one that normalizes to the effective project
\* and is left out, one that is written otherwise than its normal form and
\* is kept, normalized.
C12_Witness ==
    /\ ScopeDone
    /\ sc.scope # NoList
    /\ Len(sc.scope) = 2
    /\ sc.related # NoList
    /\ Len(sc.related) = 2
    /\ \E k \in 1..2 : normalize_project_path(sc.related[k]) = sc.effective
    /\ \E k \in 1..2 : /\ sc.related[k] # sc.scope[2]
                       /\ normalize_project_path(sc.related[k]) = sc.scope[2]

\* C13: the effective project is the requested project, verbatim, if that is
\* set and differs from default_project_id; otherwise the normalized current
\* workspace project if that is not empty, "/" or "."; otherwise
\* default_project_id.
C13_EffectiveProject ==
    ScopeDone =>
       sc.effective =
          IF sc.requested \notin {None, ""} /\ sc.requested # sc.default_project_id
          THEN sc.requested
          ELSE IF normalize_project_path(sc.current) \notin {"", "/", "."}
               THEN normalize_project_path(sc.current)
               ELSE sc.default_project_id

\* The default project was requested and the workspace project, given with a
\* trailing slash, came out normalized.
C13_Witness ==
    /\ ScopeDone
    /\ sc.requested = sc.default_project_id
    /\ sc.current = "/a/"
    /\ sc.effective = "/a"

Filtered == sc.pc \in {"search_filtered", "context_filtered"}

\* the item belongs to the scope, for the default project of the settings
BelongsToScope ==
    \/ InList(sc.doc.project_id, sc.scope)
    \/ InList(sc.doc.session_project_id, sc.scope)
    \/ sc.doc.project_id = sc.default_project_id /\ InList(sc.doc.directory, sc.scope)
    \/ sc.doc.session_project_id = sc.default_project_id
          /\ InList(sc.doc.session_directory, sc.scope)

\* C14: under a scope that is not None every item the filter keeps belongs
\* to the scope: its project_id, or its parent session's, is in the scope, or
\* that project id is the default project and the recorded directory is a
\* scope entry; under the scope None the filter removes nothing.
C14_ScopeFilter ==
    Filtered =>
       /\ (sc.scope # NoList /\ sc.kept) => BelongsToScope
       /\ sc.scope = NoList => sc.kept

Grouped == grp.pc = "grouped"

\* the items of a list that are of the kind of group g, in the list's order
RECURSIVE OfGroup(_, _)
OfGroup(rs, g) ==
    IF rs = <<>> THEN <<>>
    ELSE IF target_of(KindOf(Head(rs).id)) = g THEN <<Head(rs)>> \o OfGroup(Tail(rs), g)
         ELSE OfGroup(Tail(rs), g)

GroupLimit(g) ==
    IF g # "messages" THEN grp.per_type_limit
    ELSE IF ~grp.include_messages THEN 0
    ELSE Min(grp.per_type_limit, grp.message_limit)

\* C15: every group of the response holds at most per_type_limit items, the
\* messages group at most message_limit too; the items of a group are in
\* merge order, scores not increasing; each group is the prefix, of the
\* length its limits allow, of the merged list restricted to its kind.
C15_GroupLimits ==
    Grouped =>
       \A g \in GroupNames :
          /\ Len(grp.grouped[g]) <= grp.per_type_limit
          /\ g = "messages" => Len(grp.grouped[g]) <= grp.message_limit
          /\ \A i, j \in 1..Len(grp.grouped[g]) :
                i < j => grp.grouped[g][i].score >= grp.grouped[g][j].score
          /\ grp.grouped[g] = Prefix(OfGroup(grp.merged, g), GroupLimit(g))

\* C16: the grouper places every merged item in the group of its kind,
\* whichever tier retrieved it; the "other" group holds only items whose
\* kind is none of the seven.
C16_GroupByKind ==
    Grouped =>
       \A g \in GroupNames : \A i \in 1..Len(grp.grouped_raw[g]) :
          target_of(KindOf(grp.grouped_raw[g][i].id)) = g

\* the same items, handed over in the opposite order
Reverse(rs) == [i \in 1..Len(rs) |-> rs[Len(rs) + 1 - i]]

\* the ranked order: the ids of a list
IdsOf(rs) == [i \in 1..Len(rs) |-> rs[i].id]

\* C17: the merged order is a function of the items' scores and of the dedup
\* rule alone: the same items, returned by the tiers or the backend in
\* another order, are merged into the same ranked order.
C17_OrderIndependent ==
    mstate = "deduped" => IdsOf(dedupe_results(Reverse(results))) = IdsOf(merged)

\* C18: called with a terms list that is empty after trimming,
\* memory_kv_semantic_search returns an error result with no results, and no
\* backend call has been made: no store query, index search, embedding or
\* importer sync.
C18_NoTermsNoBackend ==
    (tool.pc = "done" /\ cleaned_terms(tool.terms) = <<>>) =>
       /\ tool.result = "error"
       /\ tool.nresults = 0
       /\ tool.backend = NoBackend

\* the external synthesizer cannot give a summary of its own
MustFallBack ==
    \/ ~sm.api_key
    \/ sm.cands = <<>>
    \/ sm.outcome.kind \in {"raises", "none", "blank"}

\* C19: _llm_context_summary returns a text in every case; without a
\* configured key, without candidates, when the external call raises and
\* when it returns empty content, that text is the output of the heuristic
\* synthesizer for the same inputs.
C19_LlmFallsBack ==
    sm.pc = "llm" =>
       /\ sm.llm \in Seq({"h", "b", "m", "c", "nl", Ellipsis})
       /\ MustFallBack => sm.llm = sm.heuristic
       /\ sm.max_context_tokens >= 1 => sm.llm # <<>>

\* A key is configured, there are candidates, and the external call returned
\* blank content: the heuristic text, not the blank one, was returned.
C19_Witness ==
    /\ sm.pc = "llm"
    /\ sm.api_key
    /\ sm.cands # <<>>
    /\ sm.outcome.kind = "blank"
    /\ sm.max_context_tokens >= 1
    /\ sm.llm = sm.heuristic
    /\ sm.llm # <<>>

\* the text holds the whole marker line
HasMarker(t) == Cardinality({i \in 1..Len(t) : t[i] = "m"}) = MarkerLen

\* C20: for max_context_tokens >= 1 the heuristic text is not empty, and it
\* holds the "No high-signal retrieved evidence found" marker exactly when
\* no evidence bullet was emitted.
C20_MarkerIffNoEvidence ==
    (sm.pc \in {"heuristic", "llm"} /\ sm.max_context_tokens >= 1) =>
       /\ sm.heuristic # <<>>
       /\ HasMarker(sm.heuristic) <=> sm.bullets = 0

\* an importer failed in the sync of the call in progress
ImporterFailed ==
    /\ srv.sync.ran > 0
    /\ "raises" \in {srv.sync.claude, srv.sync.codex}

\* C21: when an importer fails in the query-time sync of a retrieval call,
\* the failure is in last_result with status "error" for that importer, and
\* the call goes on: the tool's pipeline runs, once, and its result is the
\* response (the error response only if the pipeline itself raised).
C21_ImporterFailureIsRecorded ==
    (srv.name \in QUERY_TOOLS /\ ImporterFailed /\ srv.pc \in {"dispatch", "done"}) =>
       /\ srv.sync.status = "ok"
       /\ srv.sync.claude = "raises" => srv.last_result.claude = "error"
       /\ srv.sync.codex = "raises" => srv.last_result.codex = "error"
       /\ srv.pc = "done" =>
            /\ srv.pipeline_runs = 1
            /\ srv.response = IF srv.pipeline = "returns" THEN "normal" ELSE "error"

\* memory_search was called, the Claude Code importer raised in its sync,
\* and the search returned its normal response.
C21_Witness ==
    /\ srv.pc = "done"
    /\ srv.name = "memory_search"
    /\ srv.sync.claude = "raises"
    /\ srv.sync.codex = "returns"
    /\ srv.last_result = [status |-> "ok", claude |-> "error", codex |-> "ok"]
    /\ srv.pipeline_runs = 1
    /\ srv.response = "normal"

\* C22: a call of maybe_auto_sync_recent that returns "disabled" or
\* "skipped" calls no importer and leaves the cooldown state as it was: the
\* time and the result of the last sync are the same after it as before.
C22_NoSyncNoEffect ==
    srv.sync.status \in {"disabled", "skipped"} =>
       /\ srv.sync.ran = 0
       /\ srv.last_sync = srv.sync.before_sync
       /\ srv.last_result = srv.sync.before_result

\* A call was skipped in cooldown, later than the sync it found recorded,
\* whose time and result are still those recorded.
C22_Witness ==
    /\ srv.sync.status = "skipped"
    /\ srv.sync.ran = 0
    /\ srv.now > srv.last_sync
    /\ srv.last_sync = srv.sync.before_sync
    /\ srv.last_result = srv.sync.before_result
    /\ srv.last_result # NoSyncResult

\* the position of document id in the ranked list, 0 if it is not there
RankOf(id) ==
    IF \E i \in 1..Len(raw.ranked) : raw.ranked[i].id = id
    THEN CHOOSE i \in 1..Len(raw.ranked) : raw.ranked[i].id = id
    ELSE 0

\* both queries returned their row: the message is document 1, the session
\* document 2
BothRanked == raw.pc = "ranked" /\ raw.mo.n = 1 /\ raw.so.n = 1

\* C23: with terms, the raw-fallback items are ranked after the merge by
\* keyword overlap: the item that matches the larger fraction of the terms
\* is above the one that matches the smaller, whatever their kinds; without
\* terms every raw-fallback item has the score 0.05.
C23_RankedByOverlap ==
    /\ (BothRanked /\ raw.nterms > 0) =>
          /\ RankOf(1) > 0 /\ RankOf(2) > 0
          /\ raw.mo.hits > raw.so.hits => RankOf(1) < RankOf(2)
          /\ raw.so.hits > raw.mo.hits => RankOf(2) < RankOf(1)
    /\ (raw.pc = "ranked" /\ raw.nterms = 0) =>
          \A i \in 1..Len(raw.ranked) : 20 * raw.ranked[i].score = ScoreUnit

\* Three terms: the message matches all three, the session two of them, and
\* the message is first; and the mirror case is the session first.
C23_Witness ==
    /\ BothRanked
    /\ raw.nterms = 3
    /\ raw.mo.hits = 3
    /\ raw.so.hits = 2
    /\ RankOf(1) = 1
    /\ RankOf(2) = 2
    /\ 12 * raw.ranked[1].score = 15 * ScoreUnit

\* the step is listed in the reasoning trace of the response
Listed(step) ==
    \E i \in 1..Len(req.reasoning.retrieval_steps) : req.reasoning.retrieval_steps[i] = step

\* the number of items the tier put into the pool (the file-path searches
\* are counted apart from the primary search)
Contributed(tier) ==
    Cardinality({k \in 1..Len(req.results) :
                   req.results[k].tier = tier /\ req.results[k].src # "file"})

\* C24: the reasoning trace of a response lists as steps exactly the tiers
\* that ran in the request (the KV + semantic fallback only if it was
\* invoked), and the hit count of each tier is the number of items the tier
\* contributed (0 for a tier that did not run or failed).
C24_TraceMatchesRun ==
    req.pc = "done" =>
       /\ Listed("semantic_search")
       /\ Listed("kv_semantic_fallback") <=> req.kv_calls > 0
       /\ Listed("raw_chat_fallback") <=> req.raw_calls > 0
       /\ req.reasoning.hit_counts.primary_semantic_fts = Contributed(1)
       /\ req.reasoning.hit_counts.kv_semantic_fallback = Contributed(2)
       /\ req.reasoning.hit_counts.raw_chat_fallback = Contributed(3)

\* the projects of the scope after the effective one
ScopeRest == {sc.scope[i] : i \in 2..Len(sc.scope)}

\* the projects a related list names: normalized, without the empty and the
\* root path, and without the effective project
Named(ids) ==
    {n \in {normalize_project_path(ids[i]) : i \in 1..Len(ids)} :
       NonTrivial(n) /\ n # sc.effective}

\* C25: in resolve_scope_overrides a value of the request that is given
\* wins: a related list, the empty one too, and an include_all flag, false
\* too, are used as they are (after normalization); only a value left out
\* (None) is replaced by the configured default.
C25_ExplicitWins ==
    sc.pc = "resolved" =>
       /\ sc.include_all_eff = (IF sc.include_all = NoFlag THEN sc.include_all_by_default
                                ELSE sc.include_all = "true")
       /\ ~sc.include_all_eff =>
            ScopeRest = Named(IF sc.related = NoList THEN sc.default_related ELSE sc.related)

\* The request gave the empty list and false, the configuration has a
\* related project and include_all true: the scope is the one project.
C25_Witness ==
    /\ sc.pc = "resolved"
    /\ sc.related = <<>>
    /\ sc.include_all = "false"
    /\ sc.default_related = <<"/a">>
    /\ sc.include_all_by_default
    /\ sc.effective # "/a"
    /\ sc.scope = <<sc.effective>>

\* C26: a second run of the Codex or Claude Code importer over an unchanged
\* source directory imports no session again: it reports
\* sessions_imported = 0 and counts every session that is in the store
\* already as skipped.
C26_SecondRunSkips ==
    imp.runs >= 2 =>
       /\ imp.stats.sessions_imported = 0
       /\ imp.stats.sessions_skipped >= Cardinality(imp.before.sessions)

\* C27: in every tool call the server handles, the query sync guard is
\* invoked exactly once, and before the tool's pipeline starts, if the tool
\* is one of QUERY_TOOLS, and not at all if it is a save or an ingest tool.
C27_GuardOncePerQuery ==
    srv.name \in ToolNames =>
       /\ srv.guard_calls <= 1
       /\ ~srv.guard_late
       /\ srv.pipeline_runs <= 1
       /\ (srv.pc \in {"dispatch", "done"} /\ srv.name \in QUERY_TOOLS) => srv.guard_calls = 1
       /\ srv.name \in SaveTools \cup IngestTools => srv.guard_calls = 0

\* memory_context_for_request ran its pipeline after one invocation of the
\* guard, which ran the importers.
C27_Witness ==
    /\ srv.pc = "done"
    /\ srv.name = "memory_context_for_request"
    /\ srv.guard_calls = 1
    /\ srv.sync.status = "ok"
    /\ srv.pipeline_runs = 1
    /\ ~srv.guard_late

\* the ids the KV grep returned in this call
KvIds == {r.id : r \in {kv_grep(kvs.ko, 2)[i] : i \in 1..Len(kv_grep(kvs.ko, 2))}}

\* C28: in the result of memory_kv_semantic_search every KV hit is ahead of
\* every semantic-only hit; a KV hit's score is 10 plus 1 per matched term;
\* and of an id returned by both the KV grep and the semantic search, the KV
\* copy is the one in the result.
C28_KvHitsFirst ==
    kvs.pc = "done" =>
       /\ \A i, j \in 1..Len(kvs.result) :
             (kvs.result[i].src = "kv" /\ kvs.result[j].src # "kv") => i < j
       /\ \A i \in 1..Len(kvs.result) :
             /\ kvs.result[i].src = "kv" =>
                   kvs.result[i].score = (10 + kvs.ko.hits) * ScoreUnit
             /\ kvs.result[i].id \in KvIds => kvs.result[i].src = "kv"

\* the call in progress has been through maybe_auto_sync_recent, not forced,
\* less than the interval after a sync in which an importer failed
InFailedWindow ==
    /\ srv.sync.status # "none"
    /\ srv.enabled
    /\ ~srv.force
    /\ srv.since.failed
    /\ srv.now - srv.since.time < interval_seconds

\* C29: a query-time sync in which an importer fails starts a new cooldown
\* window all the same: the time of the last sync is that call's time and
\* the last result that call's result, and a call that is not forced and
\* comes less than the interval after it is skipped, so the failed import is
\* not tried again before the window is over or force is used.
C29_FailedSyncStartsWindow ==
    /\ (srv.sync.status = "ok" /\ ImporterFailed) =>
          /\ srv.last_sync = srv.now
          /\ srv.last_result.status = "ok"
          /\ "error" \in {srv.last_result.claude, srv.last_result.codex}
    /\ InFailedWindow => (srv.sync.status = "skipped" /\ srv.sync.ran = 0)

\* the caller is inside a call of maybe_auto_sync_recent
Inside(c) == call[c].pc \in {"wait", "sync"}

\* C30: the sync guard has no deadlock: if every importer run ends, every
\* call of maybe_auto_sync_recent returns; the lock is not held by a caller
\* whose call has returned, on any path (disabled, skipped, sync run, with
\* or without importer errors); and a caller that waits for the lock gets it.
C30_NoDeadlock ==
    /\ [](\A c \in Callers : ~InSync(c) => lock # c)
    /\ \A c \in Callers : Inside(c) ~> (call[c].pc = "ret" /\ lock # c)
    /\ \A c \in Callers : (call[c].pc = "wait") ~> (call[c].pc \in {"sync", "ret"})

\* A caller that arrived while another caller's sync was in progress has
\* returned, the other's sync ended with an importer error, and the lock is
\* free.
C30_Witness ==
    \E c, d \in Callers :
       /\ c # d
       /\ call[c].pc = "ret"
       /\ call[c].mid
       /\ call[d].pc \in {"ret", "idle"}
       /\ "error" \in {last_result.claude, last_result.codex}
       /\ lock = NoCaller

====
